---- MODULE Spec2Model ----
(***************************************************************************)
(* ArduinoStreamCommander: a model of class StreamCommander               *)
(* (src/src/StreamCommander.cpp, declared in src/unnamed/part_001) and of  *)
(* the host sketch that drives it (src/examples/test/test.ino).            *)
(*                                                                         *)
(* An Arduino String is a sequence of characters; a character is a string  *)
(* of length one.  Indices handed to the String operators are 0-based, as  *)
(* in the source.  The instance has static storage duration                *)
(* (test.ino:11), so members without an initialiser start out zero.        *)
(***************************************************************************)
EXTENDS Integers, Sequences, FiniteSets, TLC

(***************************************************************************)
(* Bounds of the model.                                                    *)
(***************************************************************************)
\* Longest buffer of the exhaustive family of channel inputs.
MaxBufLen == 3

(***************************************************************************)
(* Program constants (src/unnamed/part_001:49-54).                         *)
(***************************************************************************)
STREAM_BUFFER_TIMEOUT == 100

COMMAND_EOL_CR == "\r"

COMMAND_EOL_NL == "\n"

COMMAND_DELIMITER == " "

MESSAGE_DELIMITER == ":"

ID_MAX_LENGTH == 32

\* String( ID_MAX_LENGTH ), the decimal rendering used in the error text.
ID_MAX_LENGTH_STR == <<"3", "2">>

nullptr == "nullptr"

(***************************************************************************)
(* Arduino String operations used by the source.                           *)
(***************************************************************************)
\* String::length
length(s) == Len(s)

RECURSIVE indexOfFrom(_, _, _)
indexOfFrom(s, ch, i) ==
    IF i > Len(s) THEN -1
    ELSE IF s[i] = ch THEN i - 1
    ELSE indexOfFrom(s, ch, i + 1)

\* String::indexOf( char ): 0-based index of the first occurrence, or -1.
indexOf(s, ch) == indexOfFrom(s, ch, 1)

Min(a, b) == IF a < b THEN a ELSE b

\* String::substring( left, right ): the characters [left, right); the
\* bounds are swapped when left > right, and right is clipped to the length.
substring(s, left, right) ==
    LET l == IF left > right THEN right ELSE left
        r == IF left > right THEN left ELSE right
        rr == IF r > Len(s) THEN Len(s) ELSE r
    IN  IF l >= Len(s) THEN <<>> ELSE SubSeq(s, l + 1, rr)

\* String::remove( index, count )
remove(s, index, count) ==
    IF index >= Len(s) THEN s
    ELSE LET c == IF count > Len(s) - index THEN Len(s) - index ELSE count
         IN  SubSeq(s, 1, index) \o SubSeq(s, index + c + 1, Len(s))

\* isspace of the C library.
isspace(ch) == ch \in {" ", "\t", "\n", "\r"}

RECURSIVE trimLeft(_)
trimLeft(s) ==
    IF s # <<>> /\ isspace(Head(s)) THEN trimLeft(Tail(s)) ELSE s

RECURSIVE trimRight(_)
trimRight(s) ==
    IF s # <<>> /\ isspace(s[Len(s)]) THEN trimRight(SubSeq(s, 1, Len(s) - 1)) ELSE s

\* String::trim
trim(s) == trimRight(trimLeft(s))

\* String( bool ): the integral value in decimal.
StringOfBool(b) == IF b THEN <<"1">> ELSE <<"0">>

(***************************************************************************)
(* String literals of the source.                                         *)
(***************************************************************************)
PING_REPLY ==
    <<"r", "e", "p", "l", "y">>

COMMAND_ACTIVATE ==
    <<"a", "c", "t", "i", "v", "a", "t", "e">>

COMMAND_DEACTIVATE ==
    <<"d", "e", "a", "c", "t", "i", "v", "a", "t", "e">>

COMMAND_ISACTIVE ==
    <<"i", "s", "a", "c", "t", "i", "v", "e">>

COMMAND_SETECHO ==
    <<"s", "e", "t", "e", "c", "h", "o">>

COMMAND_SETID ==
    <<"s", "e", "t", "i", "d">>

COMMAND_GETID ==
    <<"g", "e", "t", "i", "d">>

COMMAND_PING ==
    <<"p", "i", "n", "g">>

COMMAND_GETSTATUS ==
    <<"g", "e", "t", "s", "t", "a", "t", "u", "s">>

COMMAND_LISTCOMMANDS ==
    <<"c", "o", "m", "m", "a", "n", "d", "s">>

\* Literals of executeCommand, commandSetEcho and getCommandList.
SPACE == <<" ">>

ON == <<"o", "n">>

OFF == <<"o", "f", "f">>

commandSeparator == <<",", " ">>

RESPONSE ==
    <<"r", "e", "s", "p", "o", "n", "s", "e">>

INFO ==
    <<"i", "n", "f", "o">>

ERROR ==
    <<"e", "r", "r", "o", "r">>

PING ==
    <<"p", "i", "n", "g">>

STATUS ==
    <<"s", "t", "a", "t", "u", "s">>

ID ==
    <<"i", "d">>

ACTIVE ==
    <<"a", "c", "t", "i", "v", "e">>

ECHO ==
    <<"e", "c", "h", "o">>

COMMANDS ==
    <<"c", "o", "m", "m", "a", "n", "d", "s">>

TxtTimeout ==
    <<"T", "i", "m", "e", "o", "u", "t", " ", "h", "a", "s", " ", "t", "o", " ", "b", "e", " ", ">", "=", " ", "0", ".">>

TxtIdTooLong1 ==
    <<"I", "D", " ", "'">>

TxtIdTooLong2 ==
    <<"'", " ", "t", "o", "o", " ", "l", "o", "n", "g", " ", "(", "I", "D", "_", "M", "A", "X", "_", "L", "E", "N", "G", "T", "H", " ", "=", " ">>

TxtIdTooLong3 ==
    <<")", ".">>

TxtIdAlready1 ==
    <<"I", "D", " ", "i", "s", " ", "a", "l", "r", "e", "a", "d", "y", " ", "'">>

TxtIdAlready2 ==
    <<"'", ".">>

TxtNameEmpty ==
    <<"C", "o", "m", "m", "a", "n", "d", " ", "n", "a", "m", "e", " ", "m", "u", "s", "t", " ", "n", "o", "t", " ", "b", "e", " ", "e", "m", "p", "t", "y", ".">>

TxtCallbackEmpty ==
    <<"C", "o", "m", "m", "a", "n", "d", " ", "c", "a", "l", "l", "b", "a", "c", "k", " ", "f", "u", "n", "c", "t", "i", "o", "n", " ", "m", "u", "s", "t", " ", "n", "o", "t", " ", "b", "e", " ", "e", "m", "p", "t", "y", ".">>

TxtFound1 ==
    <<"C", "o", "m", "m", "a", "n", "d", " ", "'">>

TxtFound2 ==
    <<"'", " ", "a", "l", "r", "e", "a", "d", "y", " ", "f", "o", "u", "n", "d", ".", " ", "R", "e", "p", "l", "a", "c", "i", "n", "g", " ", "w", "i", "t", "h", " ", "n", "e", "w", " ", "c", "a", "l", "l", "b", "a", "c", "k", " ", "f", "u", "n", "c", "t", "i", "o", "n", ".">>

TxtDefaultEmpty ==
    <<"D", "e", "f", "a", "u", "l", "t", " ", "c", "a", "l", "l", "b", "a", "c", "k", " ", "f", "u", "n", "c", "t", "i", "o", "n", " ", "m", "u", "s", "t", " ", "n", "o", "t", " ", "b", "e", " ", "e", "m", "p", "t", "y", ".">>

TxtIsEmpty1 ==
    <<"C", "o", "m", "m", "a", "n", "d", " ", "c", "a", "l", "l", "b", "a", "c", "k", " ", "f", "u", "n", "c", "t", "i", "o", "n", " ", "f", "o", "r", " ", "c", "o", "m", "m", "a", "n", "d", " ", "'">>

TxtIsEmpty2 ==
    <<"'", " ", "i", "s", " ", "e", "m", "p", "t", "y", ".">>

TxtReady1 ==
    <<"D", "e", "v", "i", "c", "e", " ", "w", "i", "t", "h", " ", "I", "D", " ", "'">>

TxtReady2 ==
    <<"'", " ", "i", "s", " ", "r", "e", "a", "d", "y", ".">>

TxtNotRegistered1 ==
    <<"C", "o", "m", "m", "a", "n", "d", " ", "'">>

TxtNotRegistered2 ==
    <<"'", " ", "n", "o", "t", " ", "r", "e", "g", "i", "s", "t", "e", "r", "e", "d", ".">>

TxtCmdDefault1 ==
    <<"C", "o", "m", "m", "a", "n", "d", " ", "\"">>

TxtCmdDefault2 ==
    <<"\"", " ", "w", "i", "t", "h", " ", "a", "r", "g", "u", "m", "e", "n", "t", "s", " ", "\"">>

TxtCmdDefault3 ==
    <<"\"", " ", "n", "o", "t", " ", "r", "e", "g", "i", "s", "t", "e", "r", "e", "d", ".">>

TxtHi ==
    <<"H", "i", "!">>

(***************************************************************************)
(* State.                                                                  *)
(***************************************************************************)
VARIABLES
    \* members of StreamCommander (src/unnamed/part_001:68-79);
    \* numCommands is the length of commands
    status, active, echoCommands, addStandardCommands, streamBufferTimeout,
    id, commandDelimiter, messageDelimiter, commands, defaultCallbackFunction,
    \* collaborators: the persisted identity record, whether the build has
    \* <EEPROM.h>, the timeout the Stream was given, the lines the Stream
    \* has printed and the peer has not consumed yet
    eeprom, hasEeprom, streamTimeout, tx,
    \* the host sketch: "setup" until init() has returned, then "loop"
    pc,
    \* observation of the operation in progress: the callbacks it invoked,
    \* the number of reads from the channel, the number of writes to the
    \* storage, the operation and its inputs, and whether a call went
    \* through a null function pointer
    calls, reads, writes, last, fault,
    \* the names in the order in which a registration was first accepted
    registered,
    \* the bytes the peer has written to the channel and no readString has
    \* taken yet
    rx,
    \* the status was changed last by a step that printed no status message
    unpushed,
    \* the identity setId stored last, and whether this instance stored it
    \* ("this"), one before a restart did ("previous"), or none ("nobody")
    accepted

vars ==
    << status, active, echoCommands, addStandardCommands, streamBufferTimeout,
       id, commandDelimiter, messageDelimiter, commands, defaultCallbackFunction,
       eeprom, hasEeprom, streamTimeout, tx, pc, calls, reads, writes, last, fault,
       registered, rx, unpushed, accepted >>

\* The object and its collaborators as one value, as the methods see it.
This ==
    [ status |-> status, active |-> active, echoCommands |-> echoCommands,
      addStandardCommands |-> addStandardCommands,
      streamBufferTimeout |-> streamBufferTimeout, id |-> id,
      commandDelimiter |-> commandDelimiter, messageDelimiter |-> messageDelimiter,
      commands |-> commands, defaultCallbackFunction |-> defaultCallbackFunction,
      eeprom |-> eeprom, hasEeprom |-> hasEeprom, streamTimeout |-> streamTimeout,
      tx |-> tx, calls |-> calls, reads |-> reads, writes |-> writes,
      fault |-> fault, rx |-> rx ]

\* The state after a method has returned the value t.
Commit(t) ==
    /\ status' = t.status
    /\ active' = t.active
    /\ echoCommands' = t.echoCommands
    /\ addStandardCommands' = t.addStandardCommands
    /\ streamBufferTimeout' = t.streamBufferTimeout
    /\ id' = t.id
    /\ commandDelimiter' = t.commandDelimiter
    /\ messageDelimiter' = t.messageDelimiter
    /\ commands' = t.commands
    /\ defaultCallbackFunction' = t.defaultCallbackFunction
    /\ eeprom' = t.eeprom
    /\ hasEeprom' = t.hasEeprom
    /\ streamTimeout' = t.streamTimeout
    /\ tx' = t.tx
    /\ calls' = t.calls
    /\ reads' = t.reads
    /\ writes' = t.writes
    /\ fault' = t.fault
    /\ rx' = t.rx
    /\ unpushed' = IF t.status # status
                   THEN \A k \in (Len(tx) + 1)..Len(t.tx) :
                           t.tx[k] # STATUS \o <<t.messageDelimiter>> \o t.status
                   ELSE unpushed
    /\ accepted' = IF t.id # id THEN [id |-> t.id, by |-> "this"] ELSE accepted

(***************************************************************************)
(* Outbound messages.                                                      *)
(***************************************************************************)
\* One printed line: type, the message delimiter, content (println ends it).
sendMessage(t, type, content) ==
    [t EXCEPT !.tx = Append(@, type \o <<t.messageDelimiter>> \o content)]

sendResponse(t, response) == sendMessage(t, RESPONSE, response)

sendInfo(t, info) == sendMessage(t, INFO, info)

sendError(t, error) == sendMessage(t, ERROR, error)

sendPing(t) == sendMessage(t, PING, PING_REPLY)

sendStatus(t) == sendMessage(t, STATUS, t.status)

sendId(t) == sendMessage(t, ID, t.id)

sendIsActive(t) == sendMessage(t, ACTIVE, StringOfBool(t.active))

sendEcho(t, echo) == sendMessage(t, ECHO, echo)

(***************************************************************************)
(* Setters.                                                                *)
(***************************************************************************)
\* setActive without the test for a change.
setActiveAlwaysSends(t, a) == sendIsActive([t EXCEPT !.active = a])

\* setActive as it would be if an activation also pushed the stored status.
setActivePushesStatus(t, a) ==
    IF t.active # a
    THEN LET s == sendIsActive([t EXCEPT !.active = a])
         IN  IF a THEN sendStatus(s) ELSE s
    ELSE t

\* setActive that reports the change and does not store it.
setActiveNoStore(t, a) ==
    IF t.active # a THEN sendIsActive(t) ELSE t

setActive(t, a) ==
    IF t.active # a THEN sendIsActive([t EXCEPT !.active = a]) ELSE t

setCommandDelimiter(t, cd) == [t EXCEPT !.commandDelimiter = cd]

setMessageDelimiter(t, md) == [t EXCEPT !.messageDelimiter = md]

setEchoCommands(t, e) == [t EXCEPT !.echoCommands = e]

setAddStandardCommands(t, a) == [t EXCEPT !.addStandardCommands = a]

\* setStreamBufferTimeout as it would be without the return after the error.
setStreamBufferTimeoutNoReturn(t, timeout) ==
    LET e == IF timeout < 0 THEN sendError(t, TxtTimeout) ELSE t
    IN  [e EXCEPT !.streamTimeout = timeout, !.streamBufferTimeout = timeout]

setStreamBufferTimeout(t, timeout) ==
    IF timeout < 0 THEN sendError(t, TxtTimeout)
    ELSE [t EXCEPT !.streamTimeout = timeout, !.streamBufferTimeout = timeout]

(***************************************************************************)
(* Identity.                                                               *)
(***************************************************************************)
\* The record is ID_MAX_LENGTH bytes; eeprom holds the text before its first
\* NUL, or all ID_MAX_LENGTH bytes when it has none (erased storage).
\* toCharArray( idBuffer, ID_MAX_LENGTH ) keeps ID_MAX_LENGTH - 1 characters
\* and a terminating NUL; EEPROM.put writes the buffer.
saveIdToEeprom(t, newId) ==
    [t EXCEPT !.eeprom = SubSeq(newId, 1, Min(Len(newId), ID_MAX_LENGTH - 1)),
              !.writes = @ + 1]

\* setId that reports an identity that is too long and goes on.
setIdNoReturn(t, newId) ==
    LET e == IF length(newId) > ID_MAX_LENGTH
             THEN sendError(t, TxtIdTooLong1 \o newId \o TxtIdTooLong2 \o ID_MAX_LENGTH_STR \o TxtIdTooLong3)
             ELSE t
    IN  IF newId = e.id
        THEN sendResponse(e, TxtIdAlready1 \o newId \o TxtIdAlready2)
        ELSE LET s == IF e.hasEeprom THEN saveIdToEeprom(e, newId) ELSE e
             IN  sendId([s EXCEPT !.id = newId])

\* setId without the test for an identity that does not differ.
setIdAlwaysSaves(t, newId) ==
    IF length(newId) > ID_MAX_LENGTH
    THEN sendError(t, TxtIdTooLong1 \o newId \o TxtIdTooLong2 \o ID_MAX_LENGTH_STR \o TxtIdTooLong3)
    ELSE LET s == IF t.hasEeprom THEN saveIdToEeprom(t, newId) ELSE t
         IN  sendId([s EXCEPT !.id = newId])

\* setId with the limit one too high.
setIdLooseLimit(t, newId) ==
    IF length(newId) > ID_MAX_LENGTH + 1
    THEN sendError(t, TxtIdTooLong1 \o newId \o TxtIdTooLong2 \o ID_MAX_LENGTH_STR \o TxtIdTooLong3)
    ELSE IF newId = t.id
    THEN sendResponse(t, TxtIdAlready1 \o newId \o TxtIdAlready2)
    ELSE LET s == IF t.hasEeprom THEN saveIdToEeprom(t, newId) ELSE t
         IN  sendId([s EXCEPT !.id = newId])

setId(t, newId) ==
    IF length(newId) > ID_MAX_LENGTH
    THEN sendError(t, TxtIdTooLong1 \o newId \o TxtIdTooLong2 \o ID_MAX_LENGTH_STR \o TxtIdTooLong3)
    ELSE IF newId = t.id
    THEN sendResponse(t, TxtIdAlready1 \o newId \o TxtIdAlready2)
    ELSE LET s == IF t.hasEeprom THEN saveIdToEeprom(t, newId) ELSE t
         IN  sendId([s EXCEPT !.id = newId])

\* String( id ) ends at the first NUL.  A record without NUL makes it read
\* on behind the array: beyond is the text it finds there, which is not
\* defined by the program.
loadIdFromEeprom(t, beyond) ==
    setId(t, IF Len(t.eeprom) = ID_MAX_LENGTH THEN t.eeprom \o beyond ELSE t.eeprom)

(***************************************************************************)
(* Status.                                                                 *)
(***************************************************************************)
setStatus(t, s) == [t EXCEPT !.status = s]

\* updateStatus without the test for a change.
updateStatusAlwaysSends(t, s) ==
    LET u == setStatus(t, s)
    IN  IF u.active THEN sendStatus(u) ELSE u

\* updateStatus without the test of the active flag.
updateStatusIgnoresActive(t, s) ==
    IF t.status # s THEN sendStatus(setStatus(t, s)) ELSE t

updateStatus(t, s) ==
    IF t.status # s
    THEN LET u == setStatus(t, s)
         IN  IF u.active THEN sendStatus(u) ELSE u
    ELSE t

(***************************************************************************)
(* Command registry.                                                       *)
(***************************************************************************)
getNumCommands(t) == Len(t.commands)

RECURSIVE getCommandContainerIndexFrom(_, _, _)
getCommandContainerIndexFrom(t, command, i) ==
    IF i >= getNumCommands(t) THEN -1
    ELSE IF t.commands[i + 1].command = command THEN i
    ELSE getCommandContainerIndexFrom(t, command, i + 1)

\* 0-based index of the first container named command, or -1.
getCommandContainerIndex(t, command) == getCommandContainerIndexFrom(t, command, 0)

\* A CommandContainer pointer is the 0-based position in the array; this is
\* the null one.
nullContainer == -1

\* A pointer to the first container named command, or the null pointer.
getCommandContainer(t, command) ==
    LET i == getCommandContainerIndexFrom(t, command, 0)
    IN  IF i < 0 THEN nullContainer ELSE i

\* addCommand as it would be without the lookup of the name: every accepted
\* registration gets a new container.
addCommandAppend(t, commandName, commandCallback) ==
    IF length(commandName) = 0 THEN sendError(t, TxtNameEmpty)
    ELSE IF commandCallback = nullptr THEN sendError(t, TxtCallbackEmpty)
    ELSE [t EXCEPT !.commands = Append(@, [command |-> commandName,
                                           callbackFunction |-> commandCallback])]

\* addCommand without the test of the callback.
addCommandNullCallback(t, commandName, commandCallback) ==
    IF length(commandName) = 0 THEN sendError(t, TxtNameEmpty)
    ELSE LET found == getCommandContainerIndex(t, commandName)
         IN  IF found < 0
             THEN [t EXCEPT
                     !.commands = Append(@, [command |-> commandName,
                                             callbackFunction |-> commandCallback])]
             ELSE [sendInfo(t, TxtFound1 \o commandName \o TxtFound2) EXCEPT
                     !.commands[found + 1].callbackFunction = commandCallback]

addCommand(t, commandName, commandCallback) ==
    IF length(commandName) = 0 THEN sendError(t, TxtNameEmpty)
    ELSE IF commandCallback = nullptr THEN sendError(t, TxtCallbackEmpty)
    ELSE LET found == getCommandContainerIndex(t, commandName)
         IN  IF found < 0
             THEN [t EXCEPT
                     !.commands = Append(@, [command |-> commandName,
                                             callbackFunction |-> commandCallback])]
             ELSE [sendInfo(t, TxtFound1 \o commandName \o TxtFound2) EXCEPT
                     !.commands[found + 1].callbackFunction = commandCallback]

RECURSIVE getCommandListFrom(_, _, _)
getCommandListFrom(t, i, commandList) ==
    IF i >= getNumCommands(t) THEN commandList
    ELSE getCommandListFrom(t, i + 1,
            commandList \o t.commands[i + 1].command \o commandSeparator)

\* getCommandList as it would be without the removal of the last separator.
getCommandListKeepSeparator(t) == getCommandListFrom(t, 0, <<>>)

getCommandList(t) ==
    LET commandList == getCommandListFrom(t, 0, <<>>)
        listLength == length(commandList)
        separatorLength == length(commandSeparator)
    IN  IF listLength > 0
        THEN remove(commandList, listLength - separatorLength, separatorLength)
        ELSE commandList

sendCommands(t) == sendMessage(t, COMMANDS, getCommandList(t))

setDefaultCallback(t, defaultCallback) ==
    IF defaultCallback = nullptr THEN sendError(t, TxtDefaultEmpty)
    ELSE [t EXCEPT !.defaultCallbackFunction = defaultCallback]

(***************************************************************************)
(* Callbacks.  A function pointer is the name of the function.             *)
(***************************************************************************)
commandActivate(t, arguments) == setActive(t, TRUE)

commandDeactivate(t, arguments) == setActive(t, FALSE)

commandIsActive(t, arguments) == sendIsActive(t)

\* commandSetEcho as it would be if the arguments were compared untrimmed.
commandSetEchoNoTrim(t, arguments) ==
    IF arguments = ON THEN setEchoCommands(t, TRUE)
    ELSE IF arguments = OFF THEN setEchoCommands(t, FALSE)
    ELSE t

commandSetEcho(t, arguments) ==
    LET a == trim(arguments)
    IN  IF a = ON THEN setEchoCommands(t, TRUE)
        ELSE IF a = OFF THEN setEchoCommands(t, FALSE)
        ELSE t

commandSetId(t, arguments) == setId(t, trim(arguments))

commandGetId(t, arguments) == sendId(t)

\* commandPing as it would be if it answered with its arguments.
commandPingWithArguments(t, arguments) ==
    sendMessage(t, PING, IF length(arguments) = 0 THEN PING_REPLY ELSE arguments)

commandPing(t, arguments) == sendPing(t)

\* commandGetStatus that answers only while the device is active.
commandGetStatusIfActive(t, arguments) ==
    IF t.active THEN sendStatus(t) ELSE t

commandGetStatus(t, arguments) == sendStatus(t)

commandListCommands(t, arguments) == sendCommands(t)

\* defaultCommand as it would be if it reported an error.
defaultCommandAsError(t, command, arguments) ==
    sendError(t, TxtNotRegistered1 \o command \o TxtNotRegistered2)

defaultCommand(t, command, arguments) ==
    sendResponse(t, TxtNotRegistered1 \o command \o TxtNotRegistered2)

\* Callbacks of the example sketch.
cmdTest(t, arguments) == updateStatus(t, trim(arguments))

cmdHello(t, arguments) == sendResponse(t, TxtHi)

\* Drives the built-in LED only.
cmdLed(t, arguments) == t

cmdDefault(t, command, arguments) ==
    sendResponse(t, TxtCmdDefault1 \o command \o TxtCmdDefault2 \o arguments \o TxtCmdDefault3)

\* A call through a null function pointer has no defined outcome; it is
\* recorded as a fault.
nullCall(t) == [t EXCEPT !.fault = TRUE]

\* container->callbackFunction( arguments, this )
callCommandCallback(t, callbackFunction, arguments) ==
    CASE callbackFunction = "commandActivate" -> commandActivate(t, arguments)
      [] callbackFunction = "commandDeactivate" -> commandDeactivate(t, arguments)
      [] callbackFunction = "commandIsActive" -> commandIsActive(t, arguments)
      [] callbackFunction = "commandSetEcho" -> commandSetEcho(t, arguments)
      [] callbackFunction = "commandSetId" -> commandSetId(t, arguments)
      [] callbackFunction = "commandGetId" -> commandGetId(t, arguments)
      [] callbackFunction = "commandPing" -> commandPing(t, arguments)
      [] callbackFunction = "commandGetStatus" -> commandGetStatus(t, arguments)
      [] callbackFunction = "commandListCommands" -> commandListCommands(t, arguments)
      [] callbackFunction = "cmdTest" -> cmdTest(t, arguments)
      [] callbackFunction = "cmdHello" -> cmdHello(t, arguments)
      [] callbackFunction = "cmdLed" -> cmdLed(t, arguments)
      [] OTHER -> nullCall(t)

\* getDefaultCallback()( command, arguments, this )
callDefaultCallback(t, callbackFunction, command, arguments) ==
    CASE callbackFunction = "defaultCommand" -> defaultCommand(t, command, arguments)
      [] callbackFunction = "cmdDefault" -> cmdDefault(t, command, arguments)
      [] OTHER -> nullCall(t)

\* The record of one invocation, taken when the callback is entered.
called(t, kind, callbackFunction, command, arguments) ==
    [t EXCEPT !.calls = Append(@, [kind |-> kind, callbackFunction |-> callbackFunction,
                                   command |-> command, arguments |-> arguments])]

(***************************************************************************)
(* Dispatch.                                                               *)
(***************************************************************************)
\* executeCommand as it would be if the echo joined name and arguments with
\* the command delimiter.
executeCommandEchoDelimiter(t, command, arguments) ==
    LET e == IF t.echoCommands
             THEN IF length(arguments) # 0
                  THEN sendEcho(t, command \o <<t.commandDelimiter>> \o arguments)
                  ELSE sendEcho(t, command)
             ELSE t
        container == getCommandContainer(e, command)
    IN  IF container # nullContainer
        THEN LET callbackFunction == e.commands[container + 1].callbackFunction
             IN  IF callbackFunction # nullptr
                 THEN callCommandCallback(
                          called(e, "command", callbackFunction, command, arguments),
                          callbackFunction, arguments)
                 ELSE sendError(e, TxtIsEmpty1 \o command \o TxtIsEmpty2)
        ELSE callDefaultCallback(
                 called(e, "default", e.defaultCallbackFunction, command, arguments),
                 e.defaultCallbackFunction, command, arguments)

\* executeCommand as it would be if the default callback ran after a
\* registered one as well.
executeCommandAlsoDefault(t, command, arguments) ==
    LET e == IF t.echoCommands
             THEN IF length(arguments) # 0
                  THEN sendEcho(t, command \o SPACE \o arguments)
                  ELSE sendEcho(t, command)
             ELSE t
        container == getCommandContainer(e, command)
        c == IF container # nullContainer
             THEN callCommandCallback(
                      called(e, "command", e.commands[container + 1].callbackFunction,
                             command, arguments),
                      e.commands[container + 1].callbackFunction, arguments)
             ELSE e
    IN  callDefaultCallback(
            called(c, "default", c.defaultCallbackFunction, command, arguments),
            c.defaultCallbackFunction, command, arguments)

executeCommand(t, command, arguments) ==
    LET e == IF t.echoCommands
             THEN IF length(arguments) # 0
                  THEN sendEcho(t, command \o SPACE \o arguments)
                  ELSE sendEcho(t, command)
             ELSE t
        container == getCommandContainer(e, command)
    IN  IF container # nullContainer
        THEN LET callbackFunction == e.commands[container + 1].callbackFunction
             IN  IF callbackFunction # nullptr
                 THEN callCommandCallback(
                          called(e, "command", callbackFunction, command, arguments),
                          callbackFunction, arguments)
                 ELSE sendError(e, TxtIsEmpty1 \o command \o TxtIsEmpty2)
        ELSE callDefaultCallback(
                 called(e, "default", e.defaultCallbackFunction, command, arguments),
                 e.defaultCallbackFunction, command, arguments)

\* stringEndOf as it would be if the end of the buffer ended a command.
stringEndOfOrLength(commandBuffer) ==
    LET cr == indexOf(commandBuffer, COMMAND_EOL_CR)
        nl == indexOf(commandBuffer, COMMAND_EOL_NL)
    IN  IF cr > 0 /\ nl > 0 THEN Min(cr, nl)
        ELSE IF cr > 0 THEN cr
        ELSE IF nl > 0 THEN nl
        ELSE length(commandBuffer)

\* The index at which the command ends, or -1 when there is none.
stringEndOf(commandBuffer) ==
    LET cr == indexOf(commandBuffer, COMMAND_EOL_CR)
        nl == indexOf(commandBuffer, COMMAND_EOL_NL)
    IN  IF cr > 0 /\ nl > 0 THEN Min(cr, nl)
        ELSE IF cr > 0 THEN cr
        ELSE IF nl > 0 THEN nl
        ELSE -1

\* parseCommand as it would be if the arguments started at the delimiter.
parseCommandKeepDelimiter(commandBuffer, delimiter, stringEnd) ==
    LET found == indexOf(commandBuffer, delimiter)
        commandEnd == IF found = -1 THEN stringEnd ELSE found
    IN  [ command |-> substring(commandBuffer, 0, commandEnd),
          arguments |-> IF found = -1 THEN <<>>
                        ELSE substring(commandBuffer, commandEnd, stringEnd) ]

\* The command name and the arguments parsed from the buffer.
parseCommand(commandBuffer, delimiter, stringEnd) ==
    LET found == indexOf(commandBuffer, delimiter)
        commandEnd == IF found = -1 THEN stringEnd ELSE found
    IN  [ command |-> substring(commandBuffer, 0, commandEnd),
          arguments |-> IF found = -1 THEN <<>>
                        ELSE substring(commandBuffer, commandEnd + 1, stringEnd) ]

\* readString as it would be if it left the bytes it returns in the channel.
readStringPeek(t, available) == [t EXCEPT !.reads = @ + 1]

\* streamInstance->readString(): everything the channel holds is returned
\* and taken out of the channel.
readString(t, available) == [t EXCEPT !.reads = @ + 1, !.rx = <<>>]

\* fetchCommand as it would be if it read before asking for available bytes.
fetchCommandReadFirst(t, available) ==
    LET r == readString(t, available)
        commandBuffer == available
        stringEnd == stringEndOf(commandBuffer)
    IN  IF stringEnd = -1 THEN r
        ELSE LET p == parseCommand(commandBuffer, r.commandDelimiter, stringEnd)
             IN  executeCommand(r, p.command, p.arguments)

\* available is the text the channel holds when the sketch polls.
fetchCommand(t, available) ==
    IF length(available) = 0 THEN t
    ELSE LET r == readString(t, available)
             commandBuffer == available
             stringEnd == stringEndOf(commandBuffer)
         IN  IF stringEnd = -1 THEN r
             ELSE LET p == parseCommand(commandBuffer, r.commandDelimiter, stringEnd)
                  IN  executeCommand(r, p.command, p.arguments)

(***************************************************************************)
(* Initialisation.                                                         *)
(***************************************************************************)
\* addAllStandardCommands as it was when the status query was named 'status'.
addAllStandardCommandsStatus(t) ==
    LET c1 == addCommand(t, COMMAND_ACTIVATE, "commandActivate")
        c2 == addCommand(c1, COMMAND_DEACTIVATE, "commandDeactivate")
        c3 == addCommand(c2, COMMAND_ISACTIVE, "commandIsActive")
        c4 == addCommand(c3, COMMAND_SETECHO, "commandSetEcho")
        c5 == addCommand(c4, COMMAND_SETID, "commandSetId")
        c6 == addCommand(c5, COMMAND_GETID, "commandGetId")
        c7 == addCommand(c6, COMMAND_PING, "commandPing")
        c8 == addCommand(c7, STATUS, "commandGetStatus")
    IN  addCommand(c8, COMMAND_LISTCOMMANDS, "commandListCommands")

\* addAllStandardCommands as it would be with getid registered before setid.
addAllStandardCommandsGetIdFirst(t) ==
    LET c1 == addCommand(t, COMMAND_ACTIVATE, "commandActivate")
        c2 == addCommand(c1, COMMAND_DEACTIVATE, "commandDeactivate")
        c3 == addCommand(c2, COMMAND_ISACTIVE, "commandIsActive")
        c4 == addCommand(c3, COMMAND_SETECHO, "commandSetEcho")
        c5 == addCommand(c4, COMMAND_GETID, "commandGetId")
        c6 == addCommand(c5, COMMAND_SETID, "commandSetId")
        c7 == addCommand(c6, COMMAND_PING, "commandPing")
        c8 == addCommand(c7, COMMAND_GETSTATUS, "commandGetStatus")
    IN  addCommand(c8, COMMAND_LISTCOMMANDS, "commandListCommands")

addAllStandardCommands(t) ==
    LET c1 == addCommand(t, COMMAND_ACTIVATE, "commandActivate")
        c2 == addCommand(c1, COMMAND_DEACTIVATE, "commandDeactivate")
        c3 == addCommand(c2, COMMAND_ISACTIVE, "commandIsActive")
        c4 == addCommand(c3, COMMAND_SETECHO, "commandSetEcho")
        c5 == addCommand(c4, COMMAND_SETID, "commandSetId")
        c6 == addCommand(c5, COMMAND_GETID, "commandGetId")
        c7 == addCommand(c6, COMMAND_PING, "commandPing")
        c8 == addCommand(c7, COMMAND_GETSTATUS, "commandGetStatus")
    IN  addCommand(c8, COMMAND_LISTCOMMANDS, "commandListCommands")

\* beyond: see loadIdFromEeprom.
init(t, a, cd, md, echo, addStandard, timeout, beyond) ==
    LET s1 == IF t.hasEeprom THEN loadIdFromEeprom(t, beyond) ELSE t
        s2 == setCommandDelimiter(s1, cd)
        s3 == setMessageDelimiter(s2, md)
        s4 == setStreamBufferTimeout(s3, timeout)
        s5 == setActive(s4, a)
        s6 == setEchoCommands(s5, echo)
        s7 == setAddStandardCommands(s6, addStandard)
        s8 == IF s7.addStandardCommands
              THEN setAddStandardCommands(addAllStandardCommands(s7), FALSE)
              ELSE s7
        s9 == setDefaultCallback(s8, "defaultCommand")
    IN  sendInfo(s9, TxtReady1 \o s9.id \o TxtReady2)

(***************************************************************************)
(* Inputs.                                                                 *)
(***************************************************************************)
Range(s) == { s[i] : i \in 1..Len(s) }

CommandDelimiters == { COMMAND_DELIMITER, ";" }

MessageDelimiters == { MESSAGE_DELIMITER }

Timeouts == { STREAM_BUFFER_TIMEOUT }

\* Identity records the storage may hold when the device starts.
EepromRecords == { <<>>, <<"a">> }

\* A byte of storage that was never written (0xFF).
ERASED == "#"

\* The record of a storage that was never written: no NUL in it.
Erased == [i \in 1..ID_MAX_LENGTH |-> ERASED]

\* What String( id ) may find behind a record without NUL.
Behind == { <<>>, <<ERASED>> }

\* Names and callbacks the sketch registers.
SketchNames == { <<>>, <<"a">>, COMMAND_PING }

SketchCommandCallbacks == { nullptr, "cmdHello", "cmdLed" }

SketchDefaultCallbacks == { nullptr, "cmdDefault" }

\* Every text of at most MaxBufLen characters over a small alphabet; the
\* empty text stands for a channel with no bytes available.
Alphabet == { "a", " ", COMMAND_EOL_CR, COMMAND_EOL_NL }

ShortBuffers == UNION { [1..n -> Alphabet] : n \in 0..MaxBufLen }

\* Command lines put together from a name, an argument part and an end.
LineNames == { COMMAND_PING, <<"a">>, <<"b">>, <<"P", "i", "n", "g">> }

LineArguments ==
    { <<>>, <<" ", "o", "n">>, <<" ", "a", " ", "b">>, <<";", "a">>, <<";">> }

LineEnds ==
    { <<COMMAND_EOL_CR>>, <<COMMAND_EOL_NL>>, <<COMMAND_EOL_CR, COMMAND_EOL_NL>>,
      <<COMMAND_EOL_NL, "b", " ", "a", COMMAND_EOL_NL>> }

Lines == { n \o a \o e : n \in LineNames, a \in LineArguments, e \in LineEnds }

\* Lines for the standard commands that change the device.
StandardLines ==
    { COMMAND_ACTIVATE \o <<COMMAND_EOL_NL>>,
      COMMAND_DEACTIVATE \o <<COMMAND_EOL_CR>>,
      COMMAND_SETECHO \o <<" ", "o", "n", COMMAND_EOL_CR, COMMAND_EOL_NL>>,
      COMMAND_SETECHO \o <<" ", "o", "f", "f", COMMAND_EOL_NL>>,
      COMMAND_SETID \o <<" ", "a", COMMAND_EOL_NL>>,
      COMMAND_LISTCOMMANDS \o <<COMMAND_EOL_NL>> }

Buffers == ShortBuffers \cup Lines \cup StandardLines

StandardNames ==
    << COMMAND_ACTIVATE, COMMAND_DEACTIVATE, COMMAND_ISACTIVE, COMMAND_SETECHO,
       COMMAND_SETID, COMMAND_GETID, COMMAND_PING, COMMAND_GETSTATUS,
       COMMAND_LISTCOMMANDS >>

\* The order of first accepted registration, kept beside the registry.
noteRegistration(reg, commandName, commandCallback) ==
    IF commandName # <<>> /\ commandCallback # nullptr /\ commandName \notin Range(reg)
    THEN Append(reg, commandName)
    ELSE reg

RECURSIVE noteRegistrations(_, _)
noteRegistrations(reg, names) ==
    IF names = <<>> THEN reg
    ELSE noteRegistrations(noteRegistration(reg, Head(names), "standard"), Tail(names))

(***************************************************************************)
(* Initial state: the instance as constructed.                             *)
(***************************************************************************)
Constructed(records) ==
    /\ status = <<>>
    /\ id = <<>>
    /\ commandDelimiter = COMMAND_DELIMITER
    /\ messageDelimiter = MESSAGE_DELIMITER
    /\ active = FALSE
    /\ echoCommands = FALSE
    /\ addStandardCommands = FALSE
    /\ streamBufferTimeout = 0
    /\ commands = <<>>
    /\ defaultCallbackFunction = nullptr
    /\ hasEeprom \in BOOLEAN
    /\ eeprom \in IF hasEeprom THEN records ELSE { <<>> }
    /\ streamTimeout = 1000
    /\ tx = <<>>
    /\ pc = "constructed"
    /\ calls = <<>>
    /\ reads = 0
    /\ writes = 0
    /\ fault = FALSE
    /\ last = [op |-> "none"]
    /\ registered = <<>>
    /\ rx = <<>>
    /\ unpushed = FALSE
    /\ accepted = [id |-> <<>>, by |-> "nobody"]

Init == Constructed(EepromRecords)

(***************************************************************************)
(* Actions.  An operation starts when the peer has consumed the lines of   *)
(* the previous one.                                                       *)
(***************************************************************************)
Idle == last.op = "none" /\ ~fault

\* setup() calls init() with a message delimiter out of delimiters.
InitCallWith(delimiters) ==
    /\ Idle
    /\ \E a \in BOOLEAN, cd \in CommandDelimiters, md \in delimiters,
          echo \in BOOLEAN, addStandard \in BOOLEAN, timeout \in Timeouts,
          beyond \in Behind :
          /\ Commit(init(This, a, cd, md, echo, addStandard, timeout, beyond))
          /\ last' = [op |-> "init", active |-> a, commandDelimiter |-> cd,
                      messageDelimiter |-> md, echoCommands |-> echo,
                      addStandardCommands |-> addStandard,
                      streamBufferTimeout |-> timeout]
          /\ registered' = IF addStandard
                           THEN noteRegistrations(registered, StandardNames)
                           ELSE registered
    /\ pc' = "initialised"

InitCall == InitCallWith(MessageDelimiters)

AddCommand ==
    /\ Idle
    /\ \E commandName \in SketchNames, commandCallback \in SketchCommandCallbacks :
          /\ Commit(addCommand(This, commandName, commandCallback))
          /\ last' = [op |-> "addCommand", commandName |-> commandName,
                      commandCallback |-> commandCallback]
          /\ registered' = noteRegistration(registered, commandName, commandCallback)
    /\ UNCHANGED pc

SetDefaultCallback ==
    /\ Idle
    /\ \E defaultCallback \in SketchDefaultCallbacks :
          /\ Commit(setDefaultCallback(This, defaultCallback))
          /\ last' = [op |-> "setDefaultCallback", defaultCallback |-> defaultCallback]
    /\ UNCHANGED << pc, registered >>

\* loop() polls; the sketch reaches loop() after setup() has called init().
FetchCommand ==
    /\ Idle
    /\ \E available \in Buffers :
          /\ Commit(fetchCommand(This, available))
          /\ last' = [op |-> "fetchCommand", available |-> available]
    /\ UNCHANGED << pc, registered >>

\* The peer takes the printed lines off the channel.
Consume ==
    /\ last.op # "none"
    /\ tx' = <<>>
    /\ calls' = <<>>
    /\ reads' = 0
    /\ writes' = 0
    /\ last' = [op |-> "none"]
    /\ UNCHANGED << status, active, echoCommands, addStandardCommands,
                    streamBufferTimeout, id, commandDelimiter, messageDelimiter,
                    commands, defaultCallbackFunction, eeprom, hasEeprom,
                    streamTimeout, pc, fault, registered, rx, unpushed, accepted >>

Next ==
    \/ InitCall
    \/ AddCommand
    \/ SetDefaultCallback
    \/ (pc = "initialised" /\ FetchCommand)
    \/ Consume

Spec == Init /\ [][Next]_vars

(***************************************************************************)
(* The device under the status, activity and identity interface: the       *)
(* sketch calls the public methods, also several times in a row before the *)
(* peer reads, and the peer sends lines for the standard commands and for  *)
(* the sketch's test command.                                              *)
(***************************************************************************)
\* Most calls of one method the sketch makes before the peer reads.
MaxCalls == 2

\* const String COMMAND_TEST of the sketch.
COMMAND_TEST ==
    <<"t", "e", "s", "t">>

\* Storage as the device may find it, erased storage included.
DeviceRecords == EepromRecords \cup { Erased }

Statuses == { <<>>, <<"a">> }

\* Identities of the longest admissible length and one character longer.
LongestId == [i \in 1..ID_MAX_LENGTH |-> "a"]

TooLongId == [i \in 1..(ID_MAX_LENGTH + 1) |-> "a"]

Ids == { <<>>, <<"a">>, LongestId, TooLongId }

DeviceLines ==
    { COMMAND_ACTIVATE \o <<COMMAND_EOL_NL>>,
      COMMAND_DEACTIVATE \o <<COMMAND_EOL_CR, COMMAND_EOL_NL>>,
      COMMAND_GETSTATUS \o <<COMMAND_EOL_NL>>,
      COMMAND_GETSTATUS \o <<" ", "a", COMMAND_EOL_CR>>,
      COMMAND_SETID \o <<" ", "a", COMMAND_EOL_NL>>,
      COMMAND_SETID \o <<COMMAND_EOL_NL>>,
      COMMAND_SETID \o <<" ">> \o TooLongId \o <<COMMAND_EOL_NL>>,
      COMMAND_TEST \o <<" ", "a", COMMAND_EOL_NL>>,
      COMMAND_TEST \o <<" ", " ", "a", " ", COMMAND_EOL_CR, COMMAND_EOL_NL>>,
      COMMAND_TEST \o <<COMMAND_EOL_NL>>,
      <<"b", COMMAND_EOL_NL>>,
      COMMAND_SETECHO \o <<" ", "o", "n", COMMAND_EOL_NL>>,
      COMMAND_SETECHO \o <<" ", "o", "f", "f", COMMAND_EOL_CR, COMMAND_EOL_NL>>,
      COMMAND_SETECHO \o <<" ", " ", "o", "n", " ", COMMAND_EOL_NL>>,
      COMMAND_SETECHO \o <<COMMAND_EOL_NL>>,
      COMMAND_SETECHO \o <<" ", "O", "N", COMMAND_EOL_NL>>,
      COMMAND_SETECHO \o <<" ", "o", "n", " ", "o", "f", "f", COMMAND_EOL_NL>>,
      <<"s", "t", "a", "t", "u", "s", COMMAND_EOL_NL>> }

\* Timeouts the sketch hands to setStreamBufferTimeout.
TimeoutsGiven == { -1, 0, STREAM_BUFFER_TIMEOUT }

DeviceInit == Constructed(DeviceRecords)

\* The sketch may call op now: the peer has read everything, or the sketch
\* has just called op and calls it again.
Calling(op) ==
    /\ ~fault
    /\ \/ last.op = "none"
       \/ last.op = op /\ Len(last.args) < MaxCalls

\* The arguments of the calls of the method since the peer last read.
ArgsSoFar == IF last.op = "none" THEN <<>> ELSE last.args

SetActive ==
    /\ Calling("setActive")
    /\ \E a \in BOOLEAN :
          /\ Commit(setActive(This, a))
          /\ last' = [op |-> "setActive", args |-> Append(ArgsSoFar, a),
                      was |-> IF last.op = "none" THEN active ELSE last.was]
    /\ UNCHANGED << pc, registered >>

UpdateStatus ==
    /\ Calling("updateStatus")
    /\ \E s \in Statuses :
          /\ Commit(updateStatus(This, s))
          /\ last' = [op |-> "updateStatus", args |-> Append(ArgsSoFar, s)]
    /\ UNCHANGED << pc, registered >>

SetStatus ==
    /\ Idle
    /\ \E s \in Statuses :
          /\ Commit(setStatus(This, s))
          /\ last' = [op |-> "setStatus", status |-> s]
    /\ UNCHANGED << pc, registered >>

SetId ==
    /\ Idle
    /\ \E newId \in Ids :
          /\ Commit(setId(This, newId))
          /\ last' = [op |-> "setId", id |-> newId]
    /\ UNCHANGED << pc, registered >>

\* commander.addCommand( COMMAND_TEST, cmdTest ) of the sketch.
AddTestCommand ==
    /\ Idle
    /\ Commit(addCommand(This, COMMAND_TEST, "cmdTest"))
    /\ last' = [op |-> "addCommand", commandName |-> COMMAND_TEST,
                commandCallback |-> "cmdTest"]
    /\ registered' = noteRegistration(registered, COMMAND_TEST, "cmdTest")
    /\ UNCHANGED pc

FetchLine ==
    /\ Idle
    /\ \E available \in DeviceLines :
          /\ Commit(fetchCommand(This, available))
          /\ last' = [op |-> "fetchCommand", available |-> available]
    /\ UNCHANGED << pc, registered >>

SetStreamBufferTimeout ==
    /\ Idle
    /\ \E timeout \in TimeoutsGiven :
          /\ Commit(setStreamBufferTimeout(This, timeout))
          /\ last' = [op |-> "setStreamBufferTimeout", timeout |-> timeout]
    /\ UNCHANGED << pc, registered >>

\* The board is switched off and on: the sketch constructs the instance
\* anew; the storage keeps its record.
Restart ==
    /\ Idle
    /\ pc = "initialised"
    /\ status' = <<>>
    /\ id' = <<>>
    /\ commandDelimiter' = COMMAND_DELIMITER
    /\ messageDelimiter' = MESSAGE_DELIMITER
    /\ active' = FALSE
    /\ echoCommands' = FALSE
    /\ addStandardCommands' = FALSE
    /\ streamBufferTimeout' = 0
    /\ commands' = <<>>
    /\ defaultCallbackFunction' = nullptr
    /\ streamTimeout' = 1000
    /\ pc' = "constructed"
    /\ registered' = <<>>
    /\ accepted' = IF accepted.by = "this" THEN [accepted EXCEPT !.by = "previous"]
                   ELSE accepted
    /\ unpushed' = FALSE
    /\ UNCHANGED << eeprom, hasEeprom, tx, calls, reads, writes, last, fault, rx >>

DeviceNext ==
    \/ Restart
    \/ SetStreamBufferTimeout
    \/ InitCall
    \/ SetActive
    \/ UpdateStatus
    \/ SetStatus
    \/ SetId
    \/ AddTestCommand
    \/ (pc = "initialised" /\ FetchLine)
    \/ Consume

DeviceSpec == DeviceInit /\ [][DeviceNext]_vars

(***************************************************************************)
(* A sketch that keeps to no order: it polls before it has called init(),  *)
(* and it chooses the message delimiter.  The class allows both: every     *)
(* operation is public and none checks that init() has run.                *)
(***************************************************************************)
MessageDelimitersGiven == { MESSAGE_DELIMITER, "=" }

InitDelimited == InitCallWith(MessageDelimitersGiven)

\* Lines of the standard commands that ask for a value, without and with
\* arguments.
QueryNames ==
    { COMMAND_ISACTIVE, COMMAND_GETID, COMMAND_PING, COMMAND_GETSTATUS,
      COMMAND_LISTCOMMANDS }

QueryLines ==
    { name \o arguments \o <<COMMAND_EOL_NL>> :
        name \in QueryNames, arguments \in { <<>>, <<" ", "a">> } }

FetchQuery ==
    /\ Idle
    /\ \E available \in QueryLines :
          /\ Commit(fetchCommand(This, available))
          /\ last' = [op |-> "fetchCommand", available |-> available]
    /\ UNCHANGED << pc, registered >>

AnyOrderNext ==
    \/ InitDelimited
    \/ AddTestCommand
    \/ FetchQuery
    \/ SetDefaultCallback
    \/ FetchLine
    \/ Consume

AnyOrderSpec == DeviceInit /\ [][AnyOrderNext]_vars

(***************************************************************************)
(* The channel.  The peer writes its bytes in chunks; a poll reads what    *)
(* has arrived.  The peer reads the output only after up to MaxPolls       *)
(* polls, so the state shows what each of them was given.                  *)
(***************************************************************************)
MaxPolls == 2

MaxPending == 5

Chunks == { <<"p", "i">>, <<"n", "g", COMMAND_EOL_NL>>, <<" ", "a", COMMAND_EOL_NL>> }

\* last.sent is what the peer has sent since the last poll, last.polls what
\* it had sent before each of the polls the state shows.
Send ==
    /\ ~fault
    /\ last.op \in { "none", "channel" }
    /\ last.op = "channel" => Len(last.polls) < MaxPolls
    /\ \E chunk \in Chunks :
          /\ Len(rx) + Len(chunk) <= MaxPending
          /\ rx' = rx \o chunk
          /\ last' = IF last.op = "channel"
                     THEN [last EXCEPT !.sent = @ \o chunk]
                     ELSE [op |-> "channel", sent |-> chunk, polls |-> <<>>]
    /\ UNCHANGED << status, active, echoCommands, addStandardCommands,
                    streamBufferTimeout, id, commandDelimiter, messageDelimiter,
                    commands, defaultCallbackFunction, eeprom, hasEeprom,
                    streamTimeout, tx, pc, calls, reads, writes, fault,
                    registered, unpushed, accepted >>

\* loop() polls: fetchCommand is given what the channel holds.
Poll ==
    /\ ~fault
    /\ pc = "initialised"
    /\ last.op \in { "none", "channel" }
    /\ last.op = "channel" => Len(last.polls) < MaxPolls
    /\ Commit(fetchCommand(This, rx))
    /\ last' = IF last.op = "channel"
               THEN [last EXCEPT !.sent = <<>>, !.polls = Append(@, last.sent)]
               ELSE [op |-> "channel", sent |-> <<>>, polls |-> << <<>> >>]
    /\ UNCHANGED << pc, registered >>

ChannelNext ==
    \/ InitCall
    \/ Send
    \/ Poll
    \/ Consume

ChannelSpec == Init /\ [][ChannelNext]_vars

(***************************************************************************)
(* A sketch and a peer that make trouble: up to MaxTroubles operations     *)
(* that the device has to refuse or to drop, one after the other, and then *)
(* a poll that reads a well-formed line.  The peer reads the output only   *)
(* afterwards, so the state shows the whole run.                           *)
(***************************************************************************)
MaxTroubles == 2

\* The ends of a line: CR, LF or CR LF.
LineTerminators ==
    { <<COMMAND_EOL_CR>>, <<COMMAND_EOL_NL>>, <<COMMAND_EOL_CR, COMMAND_EOL_NL>> }

Troubles ==
    { "name", "callback", "identity", "timeout", "unterminated", "empty", "unknown" }

TroubleOf(t, kind) ==
    CASE kind = "name" -> addCommand(t, <<>>, "cmdHello")
      [] kind = "callback" -> addCommand(t, COMMAND_PING, nullptr)
      [] kind = "identity" -> setId(t, TooLongId)
      [] kind = "timeout" -> setStreamBufferTimeout(t, -1)
      [] kind = "unterminated" -> fetchCommand(t, <<"p", "i">>)
      [] kind = "empty" -> fetchCommand(t, <<COMMAND_EOL_NL>>)
      [] kind = "unknown" -> fetchCommand(t, <<"b", COMMAND_EOL_NL>>)

\* Well-formed lines: a name, arguments and an end.
PollNames == { COMMAND_PING, COMMAND_TEST }

PollArguments == { <<>>, <<"a">> }

\* name, the delimiter and the arguments if there are any, and the end.
LineOf(name, arguments, end, delimiter) ==
    IF arguments = <<>> THEN name \o end
    ELSE name \o <<delimiter>> \o arguments \o end

Trouble ==
    /\ ~fault
    /\ pc = "initialised"
    /\ \/ last.op = "none"
       \/ last.op = "trouble" /\ Len(last.log) < MaxTroubles
    /\ \E kind \in Troubles :
          /\ Commit(TroubleOf(This, kind))
          /\ last' = [op |-> "trouble",
                      log |-> IF last.op = "none" THEN <<kind>>
                              ELSE Append(last.log, kind)]
    /\ UNCHANGED << pc, registered >>

\* A poll that reads a well-formed line with the name of a registered command.
PollAfterTrouble ==
    /\ ~fault
    /\ last.op = "trouble"
    /\ \E name \in PollNames, arguments \in PollArguments, end \in LineTerminators :
          /\ \E i \in 1..Len(commands) : commands[i].command = name
          /\ Commit(fetchCommand(This, LineOf(name, arguments, end, commandDelimiter)))
          /\ last' = [op |-> "poll", name |-> name, arguments |-> arguments,
                      log |-> last.log]
    /\ UNCHANGED << pc, registered >>

TroubleNext ==
    \/ InitCall
    \/ AddTestCommand
    \/ Trouble
    \/ PollAfterTrouble
    \/ Consume

TroubleSpec == DeviceInit /\ [][TroubleNext]_vars

(***************************************************************************)
(* Vocabulary of the properties.                                           *)
(***************************************************************************)
Terminators == { COMMAND_EOL_CR, COMMAND_EOL_NL }

\* The members of the object and the collaborators it writes to.
DeviceVars ==
    << status, active, echoCommands, addStandardCommands, streamBufferTimeout,
       id, commandDelimiter, messageDelimiter, commands, defaultCallbackFunction,
       eeprom, streamTimeout >>

\* The state shows a poll that has just returned.
Fetched == last.op = "fetchCommand"

\* The step is a poll reading the text last'.available.
FetchStep == last.op = "none" /\ last'.op = "fetchCommand"

\* 1-based positions of the characters of s that belong to set.
Positions(s, set) == { i \in 1..Len(s) : s[i] \in set }

Least(S) == CHOOSE i \in S : \A j \in S : i <= j

\* s contains none of the characters of set.
Free(s, set) == Positions(s, set) = {}

\* Exactly one callback was invoked, with this name and these arguments.
DispatchedAs(command, arguments) ==
    /\ Len(calls) = 1
    /\ calls[1].command = command
    /\ calls[1].arguments = arguments

(***************************************************************************)
(* C1.  Every dispatched command invokes exactly one callback once: the    *)
(* handler registered under the parsed name (exact match) with the parsed  *)
(* arguments when the name is registered, otherwise the default handler    *)
(* with the name and the arguments.                                        *)
(***************************************************************************)
C1_OneCallbackPerDispatch ==
    (Fetched /\ stringEndOf(last.available) # -1) =>
        LET p == parseCommand(last.available, commandDelimiter,
                              stringEndOf(last.available))
            matches == { i \in 1..Len(commands) : commands[i].command = p.command }
        IN  /\ DispatchedAs(p.command, p.arguments)
            /\ ~fault
            /\ IF matches # {}
               THEN /\ calls[1].kind = "command"
                    /\ \A i \in matches :
                          calls[1].callbackFunction = commands[i].callbackFunction
               ELSE /\ calls[1].kind = "default"
                    /\ calls[1].callbackFunction = defaultCallbackFunction

\* A poll has dispatched a line with arguments to a handler of the sketch.
C1_Witness ==
    /\ Fetched
    /\ Len(calls) = 1
    /\ calls[1].kind = "command"
    /\ calls[1].callbackFunction = "cmdHello"
    /\ calls[1].arguments # <<>>

(***************************************************************************)
(* C2.  Framing round trip: whenever the text read is name, delimiter,     *)
(* arguments, terminator (CR, LF or CR LF), with no delimiter, CR or LF in *)
(* name and with arguments the text up to that terminator (so free of CR   *)
(* and LF, but not of the delimiter), exactly that name and exactly those  *)
(* arguments are dispatched.                                               *)
(***************************************************************************)
C2_RoundTrip ==
    Fetched =>
        \A i \in 1..Len(last.available), j \in 1..Len(last.available) :
            LET buf == last.available
                name == SubSeq(buf, 1, i - 1)
                arguments == SubSeq(buf, i + 1, j - 1)
                terminator == SubSeq(buf, j, Len(buf))
            IN  ( /\ i < j
                  /\ buf[i] = commandDelimiter
                  /\ terminator \in LineTerminators
                  /\ Free(name, Terminators \cup {commandDelimiter})
                  /\ Free(arguments, Terminators) )
                => DispatchedAs(name, arguments)

\* A line whose arguments contain the delimiter was dispatched whole.
C2_Witness ==
    /\ Fetched
    /\ last.available = <<"a", " ", "a", " ", "b", COMMAND_EOL_CR, COMMAND_EOL_NL>>
    /\ commandDelimiter = " "
    /\ DispatchedAs(<<"a">>, <<"a", " ", "b">>)

(***************************************************************************)
(* C3.  The delimiter is looked for only before the terminator: when the   *)
(* first delimiter of the text read lies after the first terminator, the   *)
(* name is the whole text before the terminator and the arguments are      *)
(* empty.                                                                  *)
(***************************************************************************)
C3_DelimiterOnlyBeforeTerminator ==
    Fetched =>
        LET buf == last.available
            ends == Positions(buf, Terminators)
            delims == Positions(buf, {commandDelimiter})
        IN  (ends # {} /\ Least(ends) > 1 /\ delims # {} /\ Least(delims) > Least(ends))
            => DispatchedAs(SubSeq(buf, 1, Least(ends) - 1), <<>>)

(***************************************************************************)
(* C4.  A text read that begins with CR or LF aborts the cycle: no         *)
(* callback is invoked and no message is printed.                          *)
(***************************************************************************)
C4_LeadingTerminatorDropped ==
    (Fetched /\ last.available # <<>> /\ last.available[1] \in Terminators)
        => calls = <<>> /\ tx = <<>>

(***************************************************************************)
(* C5.  The command ends at the first CR or LF of the text read: on a      *)
(* text without delimiter, a callback that is invoked gets the text before *)
(* the first terminator as the name, and no arguments.                     *)
(***************************************************************************)
C5_EndsAtFirstTerminator ==
    Fetched =>
        LET buf == last.available
            ends == Positions(buf, Terminators)
        IN  (ends # {} /\ Free(buf, {commandDelimiter}) /\ calls # <<>>)
            => DispatchedAs(SubSeq(buf, 1, Least(ends) - 1), <<>>)

(***************************************************************************)
(* C6.  A text read that holds neither CR nor LF is dropped silently: no   *)
(* callback is invoked, no message is printed and the device is unchanged. *)
(***************************************************************************)
C6_UnterminatedDropped ==
    [][ (FetchStep /\ Free(last'.available, Terminators))
            => (calls' = <<>> /\ tx' = <<>> /\ ~fault' /\ UNCHANGED DeviceVars) ]_vars

\* A poll has read an unterminated fragment.
C6_Witness ==
    /\ Fetched
    /\ last.available = <<"a", " ", "a">>
    /\ reads = 1

(***************************************************************************)
(* C7.  A poll invokes at most one callback; when the text read holds more *)
(* than one terminated command, that callback is the one of the first      *)
(* command, with the first command's name and arguments.                   *)
(***************************************************************************)
\* Name and arguments of one line: split at its first delimiter, if any.
NameOf(line, delimiter) ==
    IF Positions(line, {delimiter}) = {} THEN line
    ELSE SubSeq(line, 1, Least(Positions(line, {delimiter})) - 1)

ArgumentsOf(line, delimiter) ==
    IF Positions(line, {delimiter}) = {} THEN <<>>
    ELSE SubSeq(line, Least(Positions(line, {delimiter})) + 1, Len(line))

C7_OnlyFirstCommand ==
    Fetched =>
        LET buf == last.available
            ends == Positions(buf, Terminators)
            first == SubSeq(buf, 1, Least(ends) - 1)
        IN  /\ Len(calls) <= 1
            /\ ( /\ ends # {}
                 /\ Least(ends) > 1
                 /\ \E k \in 1..Len(buf), e \in ends :
                       Least(ends) < k /\ k < e /\ buf[k] \notin Terminators )
               => DispatchedAs(NameOf(first, commandDelimiter),
                               ArgumentsOf(first, commandDelimiter))

(***************************************************************************)
(* C8.  A poll that finds no bytes available is a no-op: it does not read, *)
(* invokes no callback, prints nothing, and leaves registry, status,       *)
(* active flag, echo flag and identity as they were.                       *)
(***************************************************************************)
C8_NothingAvailableNoOp ==
    [][ (FetchStep /\ last'.available = <<>>)
            => /\ reads' = 0
               /\ calls' = <<>>
               /\ tx' = <<>>
               /\ UNCHANGED << commands, status, active, echoCommands, id >> ]_vars

\* A poll has returned without bytes available.
C8_Witness == Fetched /\ last.available = <<>> /\ pc = "initialised"

(***************************************************************************)
(* C9.  The registry holds at most one entry per name and as many entries  *)
(* as distinct names were accepted; registering a name that is present     *)
(* replaces the handler of its entry, leaves every other entry and the     *)
(* size as they were, and prints one info message and no error.            *)
(***************************************************************************)
\* The line carries a message of this type.
HasType(line, type, delimiter) ==
    /\ Len(line) > Len(type)
    /\ SubSeq(line, 1, Len(type) + 1) = type \o <<delimiter>>

ReRegistration ==
    /\ last.op = "none"
    /\ last'.op = "addCommand"
    /\ last'.commandCallback # nullptr
    /\ \E i \in 1..Len(commands) : commands[i].command = last'.commandName

C9_OneEntryPerName ==
    /\ [] ( /\ \A i, j \in 1..Len(commands) :
                  commands[i].command = commands[j].command => i = j
            /\ Len(commands) = Cardinality(Range(registered)) )
    /\ [][ ReRegistration =>
              /\ Len(commands') = Len(commands)
              /\ \A i \in 1..Len(commands) :
                    /\ commands'[i].command = commands[i].command
                    /\ commands'[i].callbackFunction =
                          IF commands[i].command = last'.commandName
                          THEN last'.commandCallback
                          ELSE commands[i].callbackFunction
              /\ Len(tx') = 1
              /\ HasType(tx'[1], INFO, messageDelimiter') ]_vars

\* The sketch has replaced the handler of the standard command ping.
C9_Witness ==
    /\ last.op = "addCommand"
    /\ last.commandName = COMMAND_PING
    /\ last.commandCallback = "cmdHello"
    /\ Len(commands) = Len(StandardNames)
    /\ commands[7] = [command |-> COMMAND_PING, callbackFunction |-> "cmdHello"]
    /\ Len(tx) = 1

(***************************************************************************)
(* C10.  The command list names every registered command once, in the      *)
(* order of first registration, joined by ", " with nothing after the last *)
(* name; the list of an empty registry is empty; the commands command      *)
(* prints that list.                                                       *)
(***************************************************************************)
RECURSIVE Joined(_)
Joined(names) ==
    IF names = <<>> THEN <<>>
    ELSE IF Len(names) = 1 THEN names[1]
    ELSE names[1] \o <<",", " ">> \o Joined(Tail(names))

C10_ListInRegistrationOrder ==
    /\ getCommandList(This) = Joined(registered)
    /\ (Fetched /\ calls # <<>> /\ calls[1].callbackFunction = "commandListCommands")
          => tx[Len(tx)] = COMMANDS \o <<messageDelimiter>> \o Joined(registered)

\* The first of two registered names has just been registered again.
C10_Witness ==
    /\ last.op = "addCommand"
    /\ last.commandName = <<"a">>
    /\ Len(tx) = 1
    /\ registered = << <<"a">>, COMMAND_PING >>
    /\ getCommandList(This) = <<"a", ",", " ", "p", "i", "n", "g">>

(***************************************************************************)
(* C11.  addCommand with an empty name or with a null handler prints       *)
(* exactly one error message and leaves the registry (names, handlers,     *)
(* order, size) as it was.                                                 *)
(***************************************************************************)
\* The step is a call of addCommand by the sketch.
AddStep == last.op = "none" /\ last'.op = "addCommand"

C11_RejectedRegistration ==
    [][ (AddStep /\ (last'.commandName = <<>> \/ last'.commandCallback = nullptr))
            => /\ commands' = commands
               /\ Len(tx') = 1
               /\ HasType(tx'[1], ERROR, messageDelimiter') ]_vars

\* A null handler was offered for a registered name; the registry kept the
\* handler it had.
C11_Witness ==
    /\ last.op = "addCommand"
    /\ last.commandName = COMMAND_PING
    /\ last.commandCallback = nullptr
    /\ tx = << ERROR \o <<messageDelimiter>> \o TxtCallbackEmpty >>
    /\ \E i \in 1..Len(commands) :
          commands[i] = [command |-> COMMAND_PING, callbackFunction |-> "cmdHello"]

(***************************************************************************)
(* Vocabulary of the properties of the device interface.                   *)
(***************************************************************************)
\* The lines the step prints.
Added == IF Len(tx') >= Len(tx) THEN SubSeq(tx', Len(tx) + 1, Len(tx')) ELSE <<>>

\* The lines of one message type among lines.
OfType(lines, type, delimiter) ==
    SelectSeq(lines, LAMBDA line : HasType(line, type, delimiter))

\* The line that carries content as a message of the type.
Message(type, delimiter, content) == type \o <<delimiter>> \o content

\* The step is a call by the sketch of the method op.
CallStep(op) == last'.op = op /\ last' # last

\* The argument of the call the step makes.
Argument == last'.args[Len(last'.args)]

\* Everything of the device but the status.
AllButStatus ==
    << active, echoCommands, addStandardCommands, streamBufferTimeout, id,
       commandDelimiter, messageDelimiter, commands, defaultCallbackFunction,
       eeprom, streamTimeout >>

(***************************************************************************)
(* C12.  updateStatus(s) prints a status message if and only if s differs  *)
(* from the stored status and the device is active; when s differs the     *)
(* stored status becomes s, also while inactive; when s equals the stored  *)
(* status nothing changes and nothing is printed.  updateStatus(x)         *)
(* followed by updateStatus(x) prints at most one status message in total. *)
(* The same holds when the sketch's test command calls updateStatus with   *)
(* its trimmed arguments.                                                  *)
(***************************************************************************)
C12_UpdateStatus ==
    /\ [][ CallStep("updateStatus") =>
              /\ Added = IF status # Argument /\ active
                         THEN << Message(STATUS, messageDelimiter, Argument) >>
                         ELSE <<>>
              /\ status' = Argument
              /\ UNCHANGED AllButStatus ]_vars
    /\ [][ (FetchStep /\ Len(calls') = 1 /\ calls'[1].callbackFunction = "cmdTest") =>
              LET s == trim(calls'[1].arguments)
              IN  /\ OfType(tx', STATUS, messageDelimiter) =
                        IF status # s /\ active
                        THEN << Message(STATUS, messageDelimiter, s) >>
                        ELSE <<>>
                  /\ status' = s
                  /\ UNCHANGED AllButStatus ]_vars
    /\ [] ( ( /\ last.op = "updateStatus"
               /\ Len(last.args) = 2
               /\ last.args[1] = last.args[2] )
             => Len(OfType(tx, STATUS, messageDelimiter)) <= 1 )

\* An active device was given the same new status twice and printed it once.
C12_Witness ==
    /\ last.op = "updateStatus"
    /\ last.args = << <<"a">>, <<"a">> >>
    /\ active
    /\ status = <<"a">>
    /\ tx = << Message(STATUS, messageDelimiter, <<"a">>) >>

(***************************************************************************)
(* C13.  Over every sequence of public calls and dispatched commands, each *)
(* change of the stored status that happens while the device is active     *)
(* prints exactly one status message, and no status message is pushed when *)
(* the value does not change (the reply to getstatus is not a push).       *)
(***************************************************************************)
\* The step dispatches the getstatus command.
GetStatusStep ==
    /\ FetchStep
    /\ Len(calls') = 1
    /\ calls'[1].callbackFunction = "commandGetStatus"

\* The status messages the step prints.
StatusAdded == OfType(Added, STATUS, messageDelimiter')

\* The step replaces the instance by a new one (a restart of the board);
\* it is no change made to the status of an instance.
RestartStep == pc # "constructed" /\ pc' = "constructed"

C13_EveryStatusChangeAnnounced ==
    [][ /\ (status' # status /\ active /\ ~RestartStep) => Len(StatusAdded) = 1
        /\ (status' = status /\ ~GetStatusStep) => Len(StatusAdded) = 0 ]_vars

\* As amended: each change made through updateStatus, by the sketch or by a
\* dispatched handler, while the device is active prints exactly one status
\* message, which carries the new value; a change made through setStatus
\* prints nothing; no status message is pushed when the value does not
\* change.
C13_UpdateStatusChangeAnnounced ==
    [][ /\ (status' # status /\ active /\ ~CallStep("setStatus") /\ ~RestartStep)
              => StatusAdded = << Message(STATUS, messageDelimiter', status') >>
        /\ CallStep("setStatus") => Added = <<>>
        /\ (status' = status /\ ~GetStatusStep) => Len(StatusAdded) = 0 ]_vars

\* The test command changed the status of an active, echoing device.
C13_Witness ==
    /\ Fetched
    /\ Len(calls) = 1
    /\ calls[1].callbackFunction = "cmdTest"
    /\ active
    /\ echoCommands
    /\ status = <<"a">>
    /\ Len(tx) = 2
    /\ tx[2] = Message(STATUS, messageDelimiter, <<"a">>)

(***************************************************************************)
(* C14.  setActive(v), and the activate and deactivate commands, print     *)
(* exactly one active message, carrying the new value, if and only if v    *)
(* differs from the active flag; when v equals the flag nothing is printed *)
(* and nothing changes.                                                    *)
(***************************************************************************)
\* Everything of the device but the active flag.
AllButActive ==
    << status, echoCommands, addStandardCommands, streamBufferTimeout, id,
       commandDelimiter, messageDelimiter, commands, defaultCallbackFunction,
       eeprom, streamTimeout >>

\* What a request for the value v of the flag prints.
ActiveMessages(v) ==
    IF active # v
    THEN << Message(ACTIVE, messageDelimiter, StringOfBool(v)) >>
    ELSE <<>>

\* The step dispatches a line to the standard handler callbackFunction.
StandardStep(callbackFunction) ==
    /\ FetchStep
    /\ Len(calls') = 1
    /\ calls'[1].callbackFunction = callbackFunction

\* The lines of the step that are not the echo of the command.
Replies == SelectSeq(Added, LAMBDA line : ~HasType(line, ECHO, messageDelimiter))

C14_SetActive ==
    /\ [][ CallStep("setActive") =>
              /\ Added = ActiveMessages(Argument)
              /\ active' = Argument
              /\ UNCHANGED AllButActive ]_vars
    /\ [][ StandardStep("commandActivate") =>
              /\ Replies = ActiveMessages(TRUE)
              /\ active' = TRUE
              /\ UNCHANGED AllButActive ]_vars
    /\ [][ StandardStep("commandDeactivate") =>
              /\ Replies = ActiveMessages(FALSE)
              /\ active' = FALSE
              /\ UNCHANGED AllButActive ]_vars

\* The deactivate command has switched an active device off.
C14_Witness ==
    /\ Fetched
    /\ Len(calls) = 1
    /\ calls[1].callbackFunction = "commandDeactivate"
    /\ ~active
    /\ tx = << Message(ACTIVE, messageDelimiter, <<"0">>) >>

(***************************************************************************)
(* C15.  setActive(true) followed by setActive(true) prints exactly one    *)
(* active message in total, not two and not none, whatever the state of    *)
(* the device at the first call.                                           *)
(***************************************************************************)
\* The sketch has called setActive(true) at least twice in a row.
ActivatedTwice ==
    /\ last.op = "setActive"
    /\ Len(last.args) >= 2
    /\ \A i \in 1..Len(last.args) : last.args[i] = TRUE

C15_ActivatedTwiceOneMessage ==
    ActivatedTwice => Len(OfType(tx, ACTIVE, messageDelimiter)) = 1

\* As amended: the two calls print exactly one active message in total when
\* the device is inactive at the first call, and none when it is active
\* already; never two.
C15_ActivatedTwiceOneMessageIfInactive ==
    ActivatedTwice =>
        tx = IF last.was THEN <<>>
             ELSE << Message(ACTIVE, messageDelimiter, <<"1">>) >>

\* An initialised, inactive device was activated twice in a row.
C15_Witness ==
    /\ ActivatedTwice
    /\ pc = "initialised"
    /\ ~last.was
    /\ active
    /\ Len(tx) = 1

(***************************************************************************)
(* C16.  The getstatus command prints exactly one status message, carrying *)
(* the stored status, whether the device is active or not, also for a      *)
(* status that updateStatus stored while the device was inactive; it       *)
(* changes nothing of the device.                                          *)
(***************************************************************************)
C16_GetStatusAlwaysAnswers ==
    [][ StandardStep("commandGetStatus") =>
           /\ Replies = << Message(STATUS, messageDelimiter, status) >>
           /\ UNCHANGED DeviceVars ]_vars

\* An inactive device has answered getstatus with the status stored while
\* it was inactive.
C16_Witness ==
    /\ Fetched
    /\ Len(calls) = 1
    /\ calls[1].callbackFunction = "commandGetStatus"
    /\ calls[1].arguments # <<>>
    /\ ~active
    /\ status = <<"a">>
    /\ tx = << Message(STATUS, messageDelimiter, <<"a">>) >>

(***************************************************************************)
(* Vocabulary of the identity properties.                                  *)
(***************************************************************************)
\* The step hands newId to setId: the sketch calls setId( newId ), or the
\* setid command is dispatched with arguments that trim to newId.
SetIdStep(newId) ==
    \/ CallStep("setId") /\ last'.id = newId
    \/ StandardStep("commandSetId") /\ trim(calls'[1].arguments) = newId

\* The identities handed to setId by the sketch and by the peer.
IdsGiven == Ids \cup { trim(ArgumentsOf(line, COMMAND_DELIMITER)) : line \in DeviceLines }

(***************************************************************************)
(* C17.  setId with an identity longer than ID_MAX_LENGTH prints one error *)
(* message and changes nothing: the identity is the one before, the        *)
(* storage is not written and no id message is printed.                    *)
(***************************************************************************)
C17_TooLongIdRejected ==
    [][ \A newId \in IdsGiven :
           (SetIdStep(newId) /\ Len(newId) > ID_MAX_LENGTH) =>
               /\ Len(Replies) = 1
               /\ HasType(Replies[1], ERROR, messageDelimiter)
               /\ id' = id
               /\ writes' = 0
               /\ UNCHANGED DeviceVars ]_vars

\* A device with a stored identity has rejected one that is too long.
C17_Witness ==
    /\ last.op = "setId"
    /\ last.id = TooLongId
    /\ hasEeprom
    /\ id = <<"a">>
    /\ eeprom = <<"a">>
    /\ Len(tx) = 1
    /\ HasType(tx[1], ERROR, messageDelimiter)

(***************************************************************************)
(* C18.  setId with the identity the device has writes nothing to the      *)
(* storage, prints no id message and leaves the identity as it is; it      *)
(* prints exactly one notice instead.                                      *)
(***************************************************************************)
C18_SameIdNoWrite ==
    [][ \A newId \in IdsGiven :
           (SetIdStep(newId) /\ newId = id) =>
               /\ Replies = << Message(RESPONSE, messageDelimiter,
                                       TxtIdAlready1 \o id \o TxtIdAlready2) >>
               /\ writes' = 0
               /\ UNCHANGED DeviceVars ]_vars

\* The longest identity was set again; the record, which differs from it,
\* was not written.
C18_Witness ==
    /\ last.op = "setId"
    /\ last.id = LongestId
    /\ id = LongestId
    /\ hasEeprom
    /\ eeprom # id
    /\ writes = 0
    /\ Len(tx) = 1

(***************************************************************************)
(* C19.  setId with an identity of admissible length that differs from the *)
(* one the device has writes it to the storage, when there is one, makes   *)
(* it the identity and prints exactly one id message, which carries it.    *)
(***************************************************************************)
\* Everything of the device but the identity and its record.
AllButId ==
    << status, active, echoCommands, addStandardCommands, streamBufferTimeout,
       commandDelimiter, messageDelimiter, commands, defaultCallbackFunction,
       streamTimeout >>

C19_NewIdStoredAndAnnounced ==
    [][ \A newId \in IdsGiven :
           (SetIdStep(newId) /\ Len(newId) <= ID_MAX_LENGTH /\ newId # id) =>
               /\ hasEeprom => (writes' = 1 /\ eeprom' = newId)
               /\ ~hasEeprom => (writes' = 0 /\ eeprom' = eeprom)
               /\ id' = newId
               /\ Replies = << Message(ID, messageDelimiter, newId) >>
               /\ UNCHANGED AllButId ]_vars

(***************************************************************************)
(* C20.  In every reachable state the identity is at most ID_MAX_LENGTH    *)
(* characters long.                                                        *)
(***************************************************************************)
C20_IdWithinMaxLength == Len(id) <= ID_MAX_LENGTH

\* init has loaded an identity of the full length from erased storage, and
\* an identity that is too long was then refused.
C20_Witness ==
    /\ last.op = "setId"
    /\ last.id = TooLongId
    /\ id = Erased
    /\ Len(id) = ID_MAX_LENGTH

(***************************************************************************)
(* Vocabulary of the properties of init.                                   *)
(***************************************************************************)
\* The step is the first init() of an instance.
FirstInitStep == CallStep("init") /\ pc = "constructed"

(***************************************************************************)
(* C21.  The storage is written only when the identity handed to setId     *)
(* differs from the record the storage holds; init, which takes the        *)
(* identity from that record, writes nothing.                              *)
(***************************************************************************)
C21_WriteOnlyOnChange ==
    [][ /\ \A newId \in IdsGiven :
              (SetIdStep(newId) /\ writes' > 0) => newId # eeprom
        /\ CallStep("init") => writes' = 0 ]_vars

(***************************************************************************)
(* C22.  With storage, the first init() of an instance prints an id        *)
(* message that carries the identity of the record, whatever identity the *)
(* record holds, the empty one included.  (A record of ID_MAX_LENGTH       *)
(* characters holds no terminated identity and is left aside.)             *)
(***************************************************************************)
C22_FirstInitAnnouncesId ==
    [][ (FirstInitStep /\ hasEeprom /\ Len(eeprom) < ID_MAX_LENGTH) =>
            \E i \in 1..Len(tx') :
                \E delimiter \in { messageDelimiter, messageDelimiter' } :
                    tx'[i] = Message(ID, delimiter, eeprom) ]_vars

(***************************************************************************)
(* C23.  With storage, an identity that setId accepted is the identity of  *)
(* the device again after a restart and init(), for every identity up to   *)
(* ID_MAX_LENGTH characters, the longest included.                         *)
(***************************************************************************)
C23_IdSurvivesRestart ==
    [][ (FirstInitStep /\ hasEeprom /\ accepted.by = "previous") =>
            id' = accepted.id ]_vars

(***************************************************************************)
(* C24.  While echo is enabled every dispatched command prints exactly one *)
(* echo message, before anything its handler prints; the content is the    *)
(* name alone when the arguments are empty and otherwise the name, one     *)
(* space and the arguments, whatever the command delimiter is.  While echo *)
(* is disabled, and when nothing is dispatched, no echo message is         *)
(* printed.                                                                *)
(***************************************************************************)
C24_EchoBeforeHandler ==
    [][ FetchStep =>
          IF echoCommands /\ calls' # <<>>
          THEN /\ Added # <<>>
               /\ Added[1] =
                     Message(ECHO, messageDelimiter,
                             IF calls'[1].arguments = <<>>
                             THEN calls'[1].command
                             ELSE calls'[1].command \o <<" ">> \o calls'[1].arguments)
               /\ Len(OfType(Added, ECHO, messageDelimiter)) = 1
          ELSE OfType(Added, ECHO, messageDelimiter) = <<>> ]_vars

\* Under the delimiter ';' the line "a;a" was echoed with a space, before
\* the reply of its handler.
C24_Witness ==
    /\ Fetched
    /\ commandDelimiter = ";"
    /\ echoCommands
    /\ Len(calls) = 1
    /\ calls[1].command = <<"a">>
    /\ calls[1].arguments = <<"a">>
    /\ Len(tx) = 2
    /\ tx[1] = Message(ECHO, messageDelimiter, <<"a", " ", "a">>)
    /\ HasType(tx[2], RESPONSE, messageDelimiter)

(***************************************************************************)
(* C25.  The setecho command trims its arguments: 'on' sets the echo flag, *)
(* 'off' clears it, and anything else (nothing, 'ON', 'on off') leaves it  *)
(* as it is.  The command prints nothing and changes nothing else.         *)
(***************************************************************************)
\* Everything of the device but the echo flag.
AllButEcho ==
    << status, active, addStandardCommands, streamBufferTimeout, id,
       commandDelimiter, messageDelimiter, commands, defaultCallbackFunction,
       eeprom, streamTimeout >>

C25_SetEcho ==
    [][ StandardStep("commandSetEcho") =>
          LET a == trim(calls'[1].arguments)
          IN  /\ echoCommands' = IF a = <<"o", "n">> THEN TRUE
                                 ELSE IF a = <<"o", "f", "f">> THEN FALSE
                                 ELSE echoCommands
              /\ Replies = <<>>
              /\ UNCHANGED AllButEcho ]_vars

\* 'on' between spaces has switched the echo on; nothing was printed.
C25_Witness ==
    /\ Fetched
    /\ Len(calls) = 1
    /\ calls[1].callbackFunction = "commandSetEcho"
    /\ calls[1].arguments = <<" ", "o", "n", " ">>
    /\ echoCommands
    /\ tx = <<>>

(***************************************************************************)
(* C26.  setStreamBufferTimeout with a negative value prints exactly one   *)
(* error message and leaves the stored timeout and the timeout of the      *)
(* channel as they are; with a value >= 0 it stores the value, applies it  *)
(* to the channel and prints nothing.                                      *)
(***************************************************************************)
\* Everything of the device but the timeout and the timeout of the channel.
AllButTimeout ==
    << status, active, echoCommands, addStandardCommands, id, commandDelimiter,
       messageDelimiter, commands, defaultCallbackFunction, eeprom >>

C26_SetStreamBufferTimeout ==
    [][ CallStep("setStreamBufferTimeout") =>
          IF last'.timeout < 0
          THEN /\ Added = << Message(ERROR, messageDelimiter, TxtTimeout) >>
               /\ UNCHANGED DeviceVars
          ELSE /\ Added = <<>>
               /\ streamBufferTimeout' = last'.timeout
               /\ streamTimeout' = last'.timeout
               /\ UNCHANGED AllButTimeout ]_vars

\* A negative timeout was refused by a device whose timeout init() had set.
C26_Witness ==
    /\ last.op = "setStreamBufferTimeout"
    /\ last.timeout < 0
    /\ streamBufferTimeout = STREAM_BUFFER_TIMEOUT
    /\ streamTimeout = STREAM_BUFFER_TIMEOUT
    /\ tx = << Message(ERROR, messageDelimiter, TxtTimeout) >>

(***************************************************************************)
(* C27.  Whenever a command is dispatched to the default handler, before   *)
(* init() has been called or after, there is a handler to call: the        *)
(* default handler is never null.  setDefaultCallback with a null handler  *)
(* prints one error message and keeps the handler that was installed.      *)
(***************************************************************************)
C27_DefaultHandlerDefined ==
    /\ [] ( (Fetched /\ calls # <<>> /\ calls[1].kind = "default") =>
               (calls[1].callbackFunction # nullptr /\ ~fault) )
    /\ [][ (CallStep("setDefaultCallback") /\ last'.defaultCallback = nullptr) =>
              /\ Added = << Message(ERROR, messageDelimiter, TxtDefaultEmpty) >>
              /\ UNCHANGED DeviceVars ]_vars

(***************************************************************************)
(* C28.  The standard commands are registered at most once per instance:   *)
(* an init() with the default arguments on an instance that has them       *)
(* registered registers nothing, prints no 'already found' notice, and     *)
(* leaves a handler the sketch registered over a standard name in place.   *)
(***************************************************************************)
\* The arguments init() has by default.
DefaultArguments ==
    [op |-> "init", active |-> TRUE, commandDelimiter |-> COMMAND_DELIMITER,
     messageDelimiter |-> MESSAGE_DELIMITER, echoCommands |-> FALSE,
     addStandardCommands |-> TRUE, streamBufferTimeout |-> STREAM_BUFFER_TIMEOUT]

\* Every standard name is in the registry.
StandardRegistered ==
    \A n \in 1..Len(StandardNames) :
        \E i \in 1..Len(commands) : commands[i].command = StandardNames[n]

\* The notice addCommand prints when the name is registered already.
AlreadyFound(line) ==
    \E n \in 1..Len(StandardNames) :
        line = Message(INFO, messageDelimiter', TxtFound1 \o StandardNames[n] \o TxtFound2)

C28_StandardCommandsOnce ==
    [][ (CallStep("init") /\ last' = DefaultArguments /\ StandardRegistered) =>
            /\ commands' = commands
            /\ \A i \in 1..Len(Added) : ~AlreadyFound(Added[i]) ]_vars

(***************************************************************************)
(* C29.  While the built-in default handler is installed, a dispatched     *)
(* command whose name is not registered prints exactly one message, of     *)
(* type response, that names the command ('b on' gives "Command 'b' not    *)
(* registered."), and changes nothing of the device.                       *)
(***************************************************************************)
C29_DefaultCommand ==
    [][ ( /\ FetchStep
          /\ calls' # <<>>
          /\ defaultCallbackFunction = "defaultCommand"
          /\ \A i \in 1..Len(commands) : commands[i].command # calls'[1].command )
        => /\ Replies = << Message(RESPONSE, messageDelimiter,
                                   TxtNotRegistered1 \o calls'[1].command
                                       \o TxtNotRegistered2) >>
           /\ UNCHANGED DeviceVars ]_vars

\* The line "b on" was answered by the built-in default handler.
C29_Witness ==
    /\ Fetched
    /\ last.available = <<"b", " ", "o", "n", COMMAND_EOL_CR, COMMAND_EOL_NL>>
    /\ defaultCallbackFunction = "defaultCommand"
    /\ Len(calls) = 1
    /\ calls[1].arguments = <<"o", "n">>
    /\ tx = << <<"r", "e", "s", "p", "o", "n", "s", "e", ":">>
               \o <<"C", "o", "m", "m", "a", "n", "d", " ", "'", "b", "'", " ">>
               \o <<"n", "o", "t", " ", "r", "e", "g", "i", "s", "t", "e", "r", "e", "d", ".">> >>

(***************************************************************************)
(* C30.  Every message printed is a type, the configured message delimiter *)
(* and the content; every message printed during init() with the message   *)
(* delimiter d, the id message of the load from storage included, uses d.  *)
(***************************************************************************)
MessageTypes == { RESPONSE, INFO, ERROR, PING, STATUS, ID, ACTIVE, ECHO, COMMANDS }

\* The line is a type, the delimiter and some content.
Delimited(line, delimiter) ==
    \E type \in MessageTypes : HasType(line, type, delimiter)

C30_ConfiguredMessageDelimiter ==
    [][ /\ \A i \in 1..Len(Added) : Delimited(Added[i], messageDelimiter')
        /\ CallStep("init") => messageDelimiter' = last'.messageDelimiter ]_vars

(***************************************************************************)
(* C31.  The device stays responsive: after any run of refused             *)
(* registrations, identities that are too long, negative timeouts, dropped *)
(* (unterminated or empty) lines and unknown commands, a poll that reads a *)
(* well-formed line with the name of a registered command invokes the      *)
(* handler of that command with the arguments of the line.                 *)
(***************************************************************************)
\* The step is a poll that follows trouble.
PollStep == last.op = "trouble" /\ last'.op = "poll"

C31_Responsive ==
    [][ PollStep =>
          /\ ~fault'
          /\ \E i \in 1..Len(commands) :
                /\ commands[i].command = last'.name
                /\ calls' = Append(calls,
                                   [kind |-> "command",
                                    callbackFunction |-> commands[i].callbackFunction,
                                    command |-> last'.name,
                                    arguments |-> last'.arguments]) ]_vars

\* ping was answered after a negative timeout and an unknown command.
C31_Witness ==
    /\ last.op = "poll"
    /\ last.log = <<"timeout", "unknown">>
    /\ last.name = COMMAND_PING
    /\ Len(calls) = 2
    /\ calls[2].callbackFunction = "commandPing"
    /\ Len(tx) = 3
    /\ HasType(tx[1], ERROR, messageDelimiter)
    /\ HasType(tx[2], RESPONSE, messageDelimiter)
    /\ tx[3] = Message(PING, messageDelimiter, PING_REPLY)

(***************************************************************************)
(* C32.  After init() with the default arguments on a fresh instance the   *)
(* registry holds exactly the nine names activate, deactivate, isactive,   *)
(* setecho, setid, getid, ping, getstatus, commands, in that order; after  *)
(* init() with addStandardCommands = false on a fresh instance it is       *)
(* empty.                                                                  *)
(***************************************************************************)
NineNames ==
    << <<"a", "c", "t", "i", "v", "a", "t", "e">>,
       <<"d", "e", "a", "c", "t", "i", "v", "a", "t", "e">>,
       <<"i", "s", "a", "c", "t", "i", "v", "e">>,
       <<"s", "e", "t", "e", "c", "h", "o">>,
       <<"s", "e", "t", "i", "d">>,
       <<"g", "e", "t", "i", "d">>,
       <<"p", "i", "n", "g">>,
       <<"g", "e", "t", "s", "t", "a", "t", "u", "s">>,
       <<"c", "o", "m", "m", "a", "n", "d", "s">> >>

\* The names of the registry, in its order.
RegistryNames(registry) == [i \in 1..Len(registry) |-> registry[i].command]

\* The step is the first init() of an instance on which nothing is registered.
FreshInitStep == FirstInitStep /\ commands = <<>>

C32_NineStandardNames ==
    [][ /\ (FreshInitStep /\ last' = DefaultArguments)
              => RegistryNames(commands') = NineNames
        /\ (FreshInitStep /\ ~last'.addStandardCommands) => commands' = <<>> ]_vars

\* init() with the default arguments has filled an empty registry.
C32_Witness ==
    /\ last = DefaultArguments
    /\ registered = NineNames
    /\ Len(commands) = 9
    /\ commands[9].command = <<"c", "o", "m", "m", "a", "n", "d", "s">>
    /\ commands[9].callbackFunction = "commandListCommands"

(***************************************************************************)
(* C33.  While the device is not active the status can be queried with the *)
(* status command: the line 'status' is answered with one status message   *)
(* that carries the stored status.                                         *)
(***************************************************************************)
\* init() has registered the standard commands on this instance.
StandardNoted ==
    \A n \in 1..Len(StandardNames) :
        \E i \in 1..Len(registered) : registered[i] = StandardNames[n]

\* The step is a poll that reads this line while the device, which has the
\* standard commands, is not active.
QueryStep(line) ==
    /\ FetchStep
    /\ last'.available = line
    /\ ~active
    /\ StandardNoted

C34_HandlersNotNull ==
    /\ \A i \in 1..Len(commands) : commands[i].callbackFunction # nullptr
    /\ \A k \in 1..Len(tx), i \in 1..Len(commands) :
          tx[k] # Message(ERROR, messageDelimiter,
                          TxtIsEmpty1 \o commands[i].command \o TxtIsEmpty2)

\* ping, whose handler the sketch had replaced, was dispatched to the handler
\* the registry holds for it.
C34_Witness ==
    /\ Fetched
    /\ Len(calls) = 1
    /\ calls[1].kind = "command"
    /\ calls[1].command = COMMAND_PING
    /\ calls[1].callbackFunction = "cmdLed"
    /\ \E i \in 1..Len(commands) :
          commands[i] = [command |-> COMMAND_PING, callbackFunction |-> "cmdLed"]

(***************************************************************************)
(* C35.  The name handed to the lookup and to the handlers is never empty: *)
(* a text whose name part is empty, because it starts with a terminator or *)
(* with the command delimiter (' x\n'), is dropped: no callback is         *)
(* invoked, the default handler included, and nothing is printed.          *)
(***************************************************************************)
C35_EmptyNameNeverDispatched ==
    Fetched =>
        /\ \A k \in 1..Len(calls) : calls[k].command # <<>>
        /\ ( /\ last.available # <<>>
             /\ last.available[1] \in Terminators \cup {commandDelimiter} )
           => (calls = <<>> /\ tx = <<>>)

(***************************************************************************)
(* C36.  Bytes of a read without terminator are not kept for the next      *)
(* poll: a poll leaves nothing in the channel, and what a poll dispatches  *)
(* is made of the bytes that arrived since the poll before it: the name is *)
(* a prefix of them and the arguments are a part of them.  After 'pi' and  *)
(* then 'ng', LF the second poll dispatches the name 'ng', never 'ping'.   *)
(***************************************************************************)
\* The step is a poll that follows another poll the state shows.
SecondPollStep ==
    /\ last.op = "channel"
    /\ last'.op = "channel"
    /\ Len(last'.polls) = Len(last.polls) + 1
    /\ Len(last.polls) >= 1

\* part is a run of consecutive characters of text.
PartOf(part, text) ==
    \E from \in 1..(Len(text) + 1), to \in 0..Len(text) :
        part = SubSeq(text, from, to)

C36_NothingRetained ==
    [][ SecondPollStep =>
          /\ rx' = <<>>
          /\ \/ calls' = calls
             \/ /\ Len(calls') = Len(calls) + 1
                /\ SubSeq(calls', 1, Len(calls)) = calls
                /\ \E n \in 0..Len(last.sent) :
                      calls'[Len(calls')].command = SubSeq(last.sent, 1, n)
                /\ PartOf(calls'[Len(calls')].arguments, last.sent)
          /\ (last.sent = <<"n", "g", COMMAND_EOL_NL>>) =>
                /\ Len(calls') = Len(calls) + 1
                /\ calls'[Len(calls')].command = <<"n", "g">> ]_vars

\* The peer sent 'pi', a poll dropped it; the peer sent 'ng', LF and the
\* next poll dispatched the name 'ng' to the default handler.
C36_Witness ==
    /\ last.op = "channel"
    /\ last.polls = << <<"p", "i">>, <<"n", "g", COMMAND_EOL_NL>> >>
    /\ rx = <<>>
    /\ Len(calls) = 1
    /\ calls[1].kind = "default"
    /\ calls[1].command = <<"n", "g">>
    /\ reads = 2

(***************************************************************************)
(* C37.  A status that updateStatus stored while the device was inactive   *)
(* is never pushed afterwards: the activation that follows prints the      *)
(* active message and no status message, an updateStatus with the same     *)
(* value prints nothing, and no other step prints a status message while   *)
(* the value stays; only getstatus shows it.                               *)
(***************************************************************************)
C37_InactiveChangeNeverPushed ==
    [][ unpushed =>
          /\ (CallStep("setActive") /\ Argument /\ ~active) =>
                Added = << Message(ACTIVE, messageDelimiter, <<"1">>) >>
          /\ (StandardStep("commandActivate") /\ ~active) =>
                Replies = << Message(ACTIVE, messageDelimiter, <<"1">>) >>
          /\ (CallStep("updateStatus") /\ Argument = status) => Added = <<>>
          /\ (status' = status /\ ~GetStatusStep) => StatusAdded = <<>>
          /\ GetStatusStep => Replies = << Message(STATUS, messageDelimiter, status) >>
      ]_vars

\* A device that was given the status 'a' while inactive has been activated
\* and has printed the active message only.
C37_Witness ==
    /\ unpushed
    /\ status = <<"a">>
    /\ last.op = "setActive"
    /\ last.args = <<TRUE>>
    /\ ~last.was
    /\ active
    /\ tx = << <<"a", "c", "t", "i", "v", "e", ":", "1">> >>

(***************************************************************************)
(* C38.  A default handler the sketch installed with setDefaultCallback    *)
(* stays installed, and is the one called for unknown commands, until the  *)
(* sketch calls setDefaultCallback again: no other operation, a repeated   *)
(* init() included, changes it.                                            *)
(***************************************************************************)
C38_DefaultHandlerKept ==
    [][ defaultCallbackFunction = "cmdDefault" =>
          /\ ~CallStep("setDefaultCallback") => defaultCallbackFunction' = "cmdDefault"
          /\ (FetchStep /\ calls' # <<>> /\ calls'[1].kind = "default")
                => calls'[1].callbackFunction = "cmdDefault" ]_vars

(***************************************************************************)
(* C39.  The standard commands isactive, getid, ping, getstatus and        *)
(* commands each print exactly one message: of type active, id, ping (with *)
(* the content 'reply'), status and commands, carrying the value the       *)
(* device has; they ignore their arguments and change nothing of the       *)
(* device.  'ping', LF prints ping:reply.                                  *)
(***************************************************************************)
\* What the standard handler callbackFunction has to print.
Answer(callbackFunction) ==
    CASE callbackFunction = "commandIsActive" ->
             Message(ACTIVE, messageDelimiter, IF active THEN <<"1">> ELSE <<"0">>)
      [] callbackFunction = "commandGetId" -> Message(ID, messageDelimiter, id)
      [] callbackFunction = "commandPing" ->
             Message(PING, messageDelimiter, <<"r", "e", "p", "l", "y">>)
      [] callbackFunction = "commandGetStatus" ->
             Message(STATUS, messageDelimiter, status)
      [] callbackFunction = "commandListCommands" ->
             Message(COMMANDS, messageDelimiter, Joined(RegistryNames(commands)))

QueryHandlers ==
    { "commandIsActive", "commandGetId", "commandPing", "commandGetStatus",
      "commandListCommands" }

C39_QueryCommands ==
    [][ \A callbackFunction \in QueryHandlers :
           StandardStep(callbackFunction) =>
               /\ Replies = << Answer(callbackFunction) >>
               /\ UNCHANGED DeviceVars ]_vars

\* ping with arguments was answered with ping:reply.
C39_Witness ==
    /\ Fetched
    /\ last.available = <<"p", "i", "n", "g", " ", "a", COMMAND_EOL_NL>>
    /\ Len(calls) = 1
    /\ calls[1].callbackFunction = "commandPing"
    /\ calls[1].arguments = <<"a">>
    /\ tx = << <<"p", "i", "n", "g", ":", "r", "e", "p", "l", "y">> >>

====
